---- MODULE Spec2Model ----
(***************************************************************************)
(* Download orchestration of the YouTube downloader: download_video, its   *)
(* two adapters (_download_with_pytube, _download_with_ytdlp), the         *)
(* progress callback contract and the GUI's WorkerControl (pause / resume / *)
(* cancel), running as one worker thread and one controller thread.        *)
(*                                                                         *)
(* pytube and yt-dlp are external libraries: what they deliver (variants,   *)
(* chunks, hook statuses, errors) is chosen nondeterministically.          *)
(***************************************************************************)
EXTENDS Integers, Sequences, FiniteSets, TLC

\* ---------------------------------------------------------------- bounds
\* Size of the file streamed by pytube, in chunks of one unit.
MaxChunks == 2
\* Number of native progress events yt-dlp delivers to _hook per invocation.
MaxHookCalls == 2
\* Longest cookies text, custom filename and resolution text given to the
\* helper functions, in characters.
MaxCookieLen == 3
MaxNameLen == 4
MaxResLen == 3

\* ------------------------------------------------------------- constants
\* Python's None for a percent / a size / an optional argument.
None == "None"
NoneP == -1

\* Values of the cookies argument: None, "", a header value, a cookie jar.
CookieValues == {None, "", "SID=abc", "a\tb"}
\* Values of the resolution argument.
ResolutionValues == {None, "720p", "4320p"}
\* Sets of progressive mp4 resolutions the remote resource may expose.
VariantSets == {{}, {"360p", "720p"}}

\* bool(x) for an optional string argument.
Truthy(s) == s # None /\ s # ""

\* -------------------------------------------------------------- messages
MsgResolution(r) == <<"Resolution not available", r>>
MsgNoProgressive == <<"No progressive MP4 streams available for this video.">>
MsgNoAudio == <<"No audio streams available for this video.">>
MsgNoDestination == <<"yt-dlp completed without reporting a destination file.">>
MsgPytubeLib == <<"pytube library error">>
MsgYtdlpLib == <<"yt-dlp library error">>
MsgZeroDivision == <<"division by zero">>
MsgEmpty == <<>>
MsgMissingUrl == <<"Missing 'url' in request body">>
MsgFailed == <<"Failed to download video">>
MsgNotFound == <<"Download destination not found">>

NoExc == [type |-> "none", msg |-> MsgEmpty, from |-> "none"]
Raise(t, m, f) == [type |-> t, msg |-> m, from |-> f]

\* ------------------------------------------------------ helper functions
\* Text is a sequence of characters; an optional value is <<>> (None) or
\* <<v>>.
Absent == <<>>
Some(v) == <<v>>
SeqsUpTo(S, n) == UNION {[1..k -> S] : k \in 0..n}

\* The characters of the argument strings used by download_video's callers
\* and of the paths yt-dlp reports.
Chars(s) ==
  CASE s = "" -> <<>>
    [] s = "SID=abc" -> <<"S", "I", "D", "=", "a", "b", "c">>
    [] s = "a\tb" -> <<"a", "\t", "b">>
    [] s = "720p" -> <<"7", "2", "0", "p">>
    [] s = "4320p" -> <<"4", "3", "2", "0", "p">>
    [] s = "out.mp4" -> <<"o", "u", "t", ".", "m", "p", "4">>
    [] s = "out.mp3" -> <<"o", "u", "t", ".", "m", "p", "3">>

Whitespace == {" ", "\t", "\n"}
Contains(s, ch) == \E i \in 1..Len(s) : s[i] = ch

RECURSIVE LStrip(_, _)
LStrip(s, set) ==
  IF s # <<>> /\ Head(s) \in set THEN LStrip(Tail(s), set) ELSE s

RECURSIVE RStrip(_, _)
RStrip(s, set) ==
  IF s # <<>> /\ s[Len(s)] \in set
    THEN RStrip(SubSeq(s, 1, Len(s) - 1), set)
    ELSE s

\* Variant of str.strip that returns the text as it was given.
Strip_identity(s) == s

\* str.strip(): leading and trailing whitespace removed.
Strip(s) == RStrip(LStrip(s, Whitespace), Whitespace)

\* The cookie entries _download_with_ytdlp puts into ydl_opts for a cookies
\* text: the content written to cookies.txt and named by "cookiefile", and
\* the "Cookie" entry of http_headers.
cookie_options(text) ==
  IF text = <<>>
    THEN [cookiefile |-> Absent, Cookie |-> Absent]
    ELSE LET stripped == Strip(text) IN
         IF Contains(stripped, "\n") \/ Contains(stripped, "\t")
           THEN [cookiefile |-> Some(stripped), Cookie |-> Absent]
           ELSE [cookiefile |-> Absent, Cookie |-> Some(stripped)]

\* Whether a cookie jar is written for the cookies argument of the call.
UsesCookieFile(c) ==
  Truthy(c) /\ cookie_options(Chars(c)).cookiefile # Absent

\* pathlib: the last dot of a name, 0 if there is none.
RECURSIVE LastDot(_)
LastDot(name) ==
  IF name = <<>> THEN 0
  ELSE IF name[Len(name)] = "." THEN Len(name)
  ELSE LastDot(SubSeq(name, 1, Len(name) - 1))

\* PurePath.name for a filename without separators: Path(".") has no name.
PathName(f) == IF f = <<".">> THEN <<>> ELSE f

\* PurePath.suffix: from the last dot on, unless the dot is the first or the
\* last character of the name.
Suffix(f) ==
  LET name == PathName(f)
      i == LastDot(name)
  IN IF 1 < i /\ i < Len(name) THEN SubSeq(name, i, Len(name)) ELSE <<>>

\* PurePath.with_suffix for a name that has a suffix.
with_suffix(f, suffix) == SubSeq(f, 1, Len(f) - Len(Suffix(f))) \o suffix

Mp3 == <<"m", "p", "3">>
Mp4 == <<"m", "p", "4">>
\* The two placeholders of yt-dlp's output template, one token each.
ExtField == "%(ext)s"
TitleField == "%(title)s"

\* Variant of _determine_template that keeps the caller's extension in
\* audio-only mode.
_determine_template_keeps(filename, audio) ==
  LET ext == IF audio THEN Some(Mp3) ELSE Absent IN
  IF filename # Absent /\ filename[1] # <<>>
    THEN LET name == filename[1] IN
         IF Suffix(name) # <<>>
           THEN [template_name |-> name,
                 final_extension |-> Some(LStrip(Suffix(name), {"."}))]
           ELSE [template_name |-> PathName(name) \o <<".", ExtField>>,
                 final_extension |-> ext]
    ELSE [template_name |-> <<TitleField, ".", ExtField>>,
          final_extension |-> ext]

\* _determine_template(filename, audio_only): (template_name, final_extension)
_determine_template(filename, audio) ==
  LET ext == IF audio THEN Some(Mp3) ELSE Absent IN
  IF filename # Absent /\ filename[1] # <<>>
    THEN LET name == filename[1] IN
         IF Suffix(name) # <<>>
           THEN IF audio
                  THEN [template_name |-> with_suffix(name, <<".">> \o Mp3),
                        final_extension |-> Some(Mp3)]
                  ELSE [template_name |-> name,
                        final_extension |->
                          Some(LStrip(Suffix(name), {"."}))]
           ELSE [template_name |-> PathName(name) \o <<".", ExtField>>,
                 final_extension |-> ext]
    ELSE [template_name |-> <<TitleField, ".", ExtField>>,
          final_extension |-> ext]

\* str.replace of one placeholder token by a text.
RECURSIVE Replace(_, _, _)
Replace(s, token, text) ==
  IF s = <<>> THEN <<>>
  ELSE (IF Head(s) = token THEN text ELSE <<Head(s)>>)
         \o Replace(Tail(s), token, text)

Digits == {"0", "1", "2", "3", "4", "5", "6", "7", "8", "9"}
DigitValue(ch) ==
  CASE ch = "0" -> 0 [] ch = "1" -> 1 [] ch = "2" -> 2 [] ch = "3" -> 3
    [] ch = "4" -> 4 [] ch = "5" -> 5 [] ch = "6" -> 6 [] ch = "7" -> 7
    [] ch = "8" -> 8 [] ch = "9" -> 9

\* int() of the leading digits of a text.
RECURSIVE LeadingInt(_, _)
LeadingInt(s, acc) ==
  IF s # <<>> /\ Head(s) \in Digits
    THEN LeadingInt(Tail(s), acc * 10 + DigitValue(Head(s)))
    ELSE acc

\* _parse_resolution(resolution): the leading digits of the stripped text as
\* an int, None without a leading digit.
_parse_resolution(r) ==
  LET text == Strip(r) IN
  IF text # <<>> /\ Head(text) \in Digits
    THEN Some(LeadingInt(text, 0))
    ELSE Absent

\* Variant of the format selection that applies the height limit in
\* audio-only mode too.
height_filter_always(audio, r) ==
  LET height == IF r # Absent /\ r[1] # <<>>
                  THEN _parse_resolution(r[1])
                  ELSE Absent
  IN IF height # Absent /\ height[1] # 0 THEN height ELSE Absent

\* The height limit inside the format selector: [height<=N] in video mode
\* when the resolution parses to a non-zero N, nothing otherwise.
height_filter(audio, r) ==
  IF audio THEN Absent
  ELSE LET height == IF r # Absent /\ r[1] # <<>>
                       THEN _parse_resolution(r[1])
                       ELSE Absent
       IN IF height # Absent /\ height[1] # 0 THEN height ELSE Absent

\* The options _download_with_ytdlp derives from its arguments.
ydl_opts(filename, audio, r) ==
  LET t == _determine_template(filename, audio) IN
  [outtmpl |->
     IF audio /\ t.final_extension # Absent /\ t.final_extension[1] # <<>>
       THEN Replace(t.template_name, ExtField, t.final_extension[1])
       ELSE t.template_name,
   format |-> IF audio THEN "bestaudio/best" ELSE "bestvideo+bestaudio/best",
   height_filter |-> height_filter(audio, r),
   merge_output_format |-> IF audio THEN Absent ELSE Some(Mp4),
   postprocessors |-> IF audio THEN <<"FFmpegExtractAudio">> ELSE <<>>]

\* Stream.default_filename: the title and the container's extension.
default_filename == <<TitleField, ".">> \o Mp4

\* The file name _download_with_pytube hands to stream.download, which
\* writes the file under exactly that name.
pytube_filename(filename) ==
  IF filename # Absent /\ filename[1] # <<>>
    THEN filename[1]
    ELSE default_filename

VARIABLES
  \* arguments of download_video
  audio_only, cookies, resolution, progress_callback, control,
  \* WorkerControl
  resume_event, cancel_event,
  \* worker thread: position, position inside a WorkerControl call
  pc, ctl,
  \* download_video: the try block the running attempt is in, adapters tried
  phase, attempts,
  \* exception in flight / value returned by the adapter, result of the call
  exc, ret, outcome,
  \* events delivered to progress_callback
  events,
  \* pytube: selected stream, bytes still to transfer
  stream, bytes_remaining,
  \* pytube: the progressive mp4 variants the resource exposes
  yt_streams,
  \* yt-dlp: download_info, status passed to _hook, hook calls so far
  download_info, status, hook_calls,
  \* yt-dlp: the staging directory and the cookie jar written inside it exist
  temp_dir, cookiefile,
  \* DownloadWorker.run: terminal signals emitted
  emitted,
  \* /download endpoint: its position, temporary directory and response
  http,
  \* a helper function applied on its own: which one, its input, its result
  fn, inp, out,
  \* the file system: the paths at which a file exists
  disk

vars == <<audio_only, cookies, resolution, progress_callback, control,
          resume_event, cancel_event, pc, ctl, phase, attempts, exc, ret,
          outcome, events, stream, bytes_remaining, yt_streams,
          download_info, status, hook_calls, temp_dir, cookiefile, emitted,
          http, fn, inp, out, disk>>

args == <<audio_only, cookies, resolution, progress_callback, control>>
ctrl == <<resume_event, cancel_event>>
pyvars == <<stream, bytes_remaining, yt_streams>>
ydvars == <<download_info, status, hook_calls>>
tmpvars == <<temp_dir, cookiefile>>
\* State of the callers, of the helper functions examined on their own, and
\* of the file system.
aux == <<emitted, http, fn, inp, out, disk>>
kept == <<args, tmpvars, aux>>

NoStream == [filesize |-> 0, filesize_approx |-> 0, res |-> None]
NoStatus == [status |-> None, downloaded_bytes |-> 0, total_bytes |-> 0,
             total_bytes_estimate |-> 0, filename |-> ""]
Running == [kind |-> "running", type |-> "none", msg |-> MsgEmpty]

\* The /download endpoint: position, whether the body has a url, whether
\* the per-request directory exists, the response.
NoHttp == [pc |-> "none", url |-> FALSE, temp_dir |-> FALSE, code |-> 0,
           description |-> MsgEmpty]

NoInput == [f |-> "none"]

\* State before download_video runs, whoever calls it.
Entry ==
  /\ resume_event = TRUE
  /\ cancel_event = FALSE
  /\ ctl = "none"
  /\ phase = "none"
  /\ attempts = <<>>
  /\ exc = NoExc
  /\ ret = None
  /\ outcome = Running
  /\ events = <<>>
  /\ stream = NoStream
  /\ bytes_remaining = 0
  /\ download_info = None
  /\ status = NoStatus
  /\ hook_calls = 0
  /\ yt_streams = {}
  /\ temp_dir = FALSE
  /\ cookiefile = FALSE
  /\ emitted = <<>>
  /\ disk = {}

\* DownloadWorker.run calls download_video; the GUI owns the control object.
Init ==
  /\ audio_only \in BOOLEAN
  /\ cookies \in CookieValues
  /\ resolution \in ResolutionValues
  /\ progress_callback \in BOOLEAN
  /\ control \in BOOLEAN
  /\ Entry
  /\ pc = "dv_start"
  /\ http = NoHttp
  /\ fn = "none"
  /\ inp = NoInput
  /\ out = Absent

\* ------------------------------------------------------- WorkerControl
\* The controller thread (GUI) holds the control object while the download
\* runs and may call pause / resume / cancel at any time.
ControllerActive == control /\ outcome.kind = "running"

pause ==
  /\ ControllerActive
  /\ resume_event' = FALSE
  /\ UNCHANGED <<cancel_event, kept, pc, ctl, phase, attempts, exc, ret,
                 outcome, events, pyvars, ydvars>>

\* Variant of resume() that also clears the cancel flag.
resume_clears_cancel ==
  /\ ControllerActive
  /\ resume_event' = TRUE
  /\ cancel_event' = FALSE
  /\ UNCHANGED <<kept, pc, ctl, phase, attempts, exc, ret, outcome, events,
                 pyvars, ydvars>>

resume ==
  /\ ControllerActive
  /\ resume_event' = TRUE
  /\ UNCHANGED <<cancel_event, kept, pc, ctl, phase, attempts, exc, ret,
                 outcome, events, pyvars, ydvars>>

cancel ==
  /\ ControllerActive
  /\ cancel_event' = TRUE
  /\ resume_event' = TRUE
  /\ UNCHANGED <<kept, pc, ctl, phase, attempts, exc, ret, outcome, events,
                 pyvars, ydvars>>

is_paused == ~resume_event

\* Call sites where wait_if_paused() follows raise_if_cancelled().
WaitFollows == pc \in {"py_start", "py_handler", "yd_hook"}

\* Entering a checkpoint: with a control object the worker calls
\* raise_if_cancelled() first, without one it goes straight on.
Checkpoint == IF control THEN "ric" ELSE "none"

\* Variant in which the staging directory is made with mkdtemp and nothing
\* removes it when the invocation ends.
ExitTempDir_keeps == UNCHANGED tmpvars

\* tempfile.TemporaryDirectory.__exit__: the directory and everything in it
\* (the cookie jar) are removed, on a normal exit and on an exception.
ExitTempDir ==
  /\ temp_dir' = FALSE
  /\ cookiefile' = FALSE

\* An exception leaving an adapter unwinds the `with` block it is raised in.
Unwind == IF temp_dir THEN ExitTempDir ELSE UNCHANGED tmpvars

\* DownloadCancelled raised inside an adapter travels up to download_video.
RaiseCancelled ==
  /\ exc' = Raise("DownloadCancelled", MsgEmpty, attempts[Len(attempts)])
  /\ pc' = "dv_except"
  /\ ctl' = "none"
  /\ Unwind

\* raise_if_cancelled() called directly by an adapter.
raise_if_cancelled ==
  /\ ctl = "ric"
  /\ IF cancel_event
       THEN RaiseCancelled
       ELSE /\ ctl' = IF WaitFollows THEN "wip_test" ELSE "none"
            /\ UNCHANGED <<pc, exc, tmpvars>>
  /\ UNCHANGED <<args, aux, ctrl, phase, attempts, ret, outcome, events, pyvars,
                 ydvars>>

\* Positions inside wait_if_paused(): the loop condition evaluated on entry
\* (wip_test) or after a sleep (wip_retest), the raise_if_cancelled() of the
\* loop body (wip_ric), the sleep (wip_sleep).
InWait == ctl \in {"wip_test", "wip_retest", "wip_ric", "wip_sleep"}

\* wait_if_paused(): the loop condition `while not resume_event.is_set()`.
wait_if_paused_test ==
  /\ ctl \in {"wip_test", "wip_retest"}
  /\ ctl' = IF ~resume_event THEN "wip_ric" ELSE "none"
  /\ UNCHANGED <<kept, ctrl, pc, phase, attempts, exc, ret, outcome, events,
                 pyvars, ydvars>>

\* Variant of the loop body without its raise_if_cancelled().
wait_if_paused_no_check ==
  /\ ctl = "wip_ric"
  /\ ctl' = "wip_sleep"
  /\ UNCHANGED <<kept, ctrl, pc, phase, attempts, exc, ret, outcome, events,
                 pyvars, ydvars>>

\* wait_if_paused(): raise_if_cancelled() inside the loop.
wait_if_paused_check ==
  /\ ctl = "wip_ric"
  /\ IF cancel_event
       THEN RaiseCancelled
       ELSE /\ ctl' = "wip_sleep"
            /\ UNCHANGED <<pc, exc, tmpvars>>
  /\ UNCHANGED <<args, aux, ctrl, phase, attempts, ret, outcome, events, pyvars,
                 ydvars>>

\* wait_if_paused(): time.sleep(_sleep_interval) ends.
wait_if_paused_sleep ==
  /\ ctl = "wip_sleep"
  /\ ctl' = "wip_retest"
  /\ UNCHANGED <<kept, ctrl, pc, phase, attempts, exc, ret, outcome, events,
                 pyvars, ydvars>>

\* ------------------------------------------------------ progress events
\* progress_callback(percent, message), as the consumer receives it; att is
\* the number of the adapter attempt that delivered it.
Emit(percent, message) ==
  Append(events, [att |-> Len(attempts), percent |-> percent,
                  message |-> message])

\* downloaded / total * 100, None when the total is unknown (0 or absent).
Percent(downloaded, total) ==
  IF total # 0 THEN (downloaded * 100) \div total ELSE NoneP

\* ---------------------------------------------------------- download_video
\* Variant of prefer_ytdlp that looks at the mode only.
prefer_ytdlp_mode_only == audio_only

\* Variant of prefer_ytdlp that looks at the cookies only.
prefer_ytdlp_cookies_only == Truthy(cookies)

\* prefer_ytdlp = audio_only or bool(cookies)
prefer_ytdlp == audio_only \/ Truthy(cookies)

\* A call of _download_with_pytube / _download_with_ytdlp from the try block
\* ph: the adapter starts with fresh locals.
StartAdapter(adapter, ph) ==
  /\ phase' = ph
  /\ attempts' = Append(attempts, adapter)
  /\ exc' = NoExc
  /\ stream' = NoStream
  /\ bytes_remaining' = 0
  /\ yt_streams' = {}
  /\ download_info' = None
  /\ status' = NoStatus
  /\ hook_calls' = 0
  /\ IF adapter = "pytube"
       THEN pc' = "py_init" /\ ctl' = Checkpoint
       ELSE pc' = "yd_setup" /\ ctl' = "none"

\* download_video raises DownloadError(str(e)) / re-raises e.
Fail(type, msg) ==
  /\ outcome' = [kind |-> "raised", type |-> type, msg |-> msg]
  /\ pc' = "done"
  /\ ctl' = "none"
  /\ UNCHANGED <<phase, attempts, exc, pyvars, ydvars>>

download_video ==
  /\ pc = "dv_start"
  /\ IF prefer_ytdlp
       THEN StartAdapter("ytdlp", "prefer")
       ELSE StartAdapter("pytube", "primary")
  /\ UNCHANGED <<kept, ctrl, ret, outcome, events>>

\* Variant without the `except DownloadCancelled: raise` clauses: the
\* cancellation is handled by `except Exception` like any other error.
except_DownloadCancelled_as_error ==
  /\ pc = "dv_except"
  /\ exc.type = "DownloadCancelled"
  /\ IF phase = "primary"
       THEN StartAdapter("ytdlp", "fallback") /\ UNCHANGED outcome
       ELSE Fail("DownloadError", exc.msg)
  /\ UNCHANGED <<kept, ctrl, ret, events>>

\* except DownloadCancelled: raise   (all three try blocks)
except_DownloadCancelled ==
  /\ pc = "dv_except"
  /\ exc.type = "DownloadCancelled"
  /\ Fail("DownloadCancelled", MsgEmpty)
  /\ UNCHANGED <<kept, ctrl, ret, events>>

\* except Exception as exc, first try block (fallback adapter preferred):
\* DownloadError when audio_only or cookies, else on to the pytube call.
except_prefer ==
  /\ pc = "dv_except"
  /\ exc.type # "DownloadCancelled"
  /\ phase = "prefer"
  /\ IF audio_only \/ Truthy(cookies)
       THEN Fail("DownloadError", exc.msg)
       ELSE StartAdapter("pytube", "primary") /\ UNCHANGED outcome
  /\ UNCHANGED <<kept, ctrl, ret, events>>

\* Variant that gives up after pytube instead of falling back.
except_primary_no_fallback ==
  /\ pc = "dv_except"
  /\ exc.type # "DownloadCancelled"
  /\ phase = "primary"
  /\ Fail("DownloadError", exc.msg)
  /\ UNCHANGED <<kept, ctrl, ret, events>>

\* except Exception as exc, around the pytube call: fall back to yt-dlp.
except_primary ==
  /\ pc = "dv_except"
  /\ exc.type # "DownloadCancelled"
  /\ phase = "primary"
  /\ StartAdapter("ytdlp", "fallback")
  /\ UNCHANGED <<kept, ctrl, ret, outcome, events>>

\* Variant that lets the fallback adapter's exception through unwrapped.
except_fallback_reraise ==
  /\ pc = "dv_except"
  /\ exc.type # "DownloadCancelled"
  /\ phase = "fallback"
  /\ Fail(exc.type, exc.msg)
  /\ UNCHANGED <<kept, ctrl, ret, events>>

\* except Exception as fallback_exc: raise DownloadError(str(fallback_exc))
except_fallback ==
  /\ pc = "dv_except"
  /\ exc.type # "DownloadCancelled"
  /\ phase = "fallback"
  /\ Fail("DownloadError", exc.msg)
  /\ UNCHANGED <<kept, ctrl, ret, events>>

\* return _download_with_...(...)
return_path ==
  /\ pc = "dv_return"
  /\ outcome' = [kind |-> "returned", type |-> "Path", msg |-> MsgEmpty]
  /\ pc' = "done"
  /\ UNCHANGED <<kept, ctrl, ctl, phase, attempts, exc, ret, events, pyvars,
                 ydvars>>

\* Variant of DownloadWorker.run without the `except DownloadCancelled`
\* clause: the cancellation is reported by `except Exception`.
TerminalSignal_no_cancelled(o) ==
  IF o.kind = "returned"
    THEN [signal |-> "succeeded", arg |-> <<ret>>]
    ELSE [signal |-> "failed", arg |-> o.msg]

\* The signal DownloadWorker.run emits for the way download_video ended.
TerminalSignal(o) ==
  IF o.kind = "returned"
    THEN [signal |-> "succeeded", arg |-> <<ret>>]
    ELSE IF o.type = "DownloadCancelled"
           THEN [signal |-> "cancelled", arg |-> MsgEmpty]
           ELSE [signal |-> "failed", arg |-> o.msg]

\* DownloadWorker.run after download_video has ended: the except / else
\* clause emits one signal and run returns. The worker always passes its
\* _progress callback and the GUI's control object.
run ==
  /\ pc = "done"
  /\ progress_callback
  /\ control
  /\ emitted = <<>>
  /\ emitted' = <<TerminalSignal(outcome)>>
  /\ UNCHANGED <<args, tmpvars, http, fn, inp, out, disk, ctrl, pc, ctl,
                 phase, attempts, exc, ret, outcome, events, pyvars, ydvars>>

\* An adapter raises a non-cancellation exception.
AdapterRaises(type, msg) ==
  /\ exc' = Raise(type, msg, attempts[Len(attempts)])
  /\ pc' = "dv_except"
  /\ ctl' = "none"
  /\ Unwind

\* ---------------------------------------------------- _download_with_pytube
\* Numeric part of a resolution label, the key pytube orders streams by.
Height(r) ==
  CASE r = "360p" -> 360 [] r = "720p" -> 720 [] r = "1080p" -> 1080
    [] r = "4320p" -> 4320 [] OTHER -> 0

\* filtered_streams.order_by("resolution").desc().first()
Highest(variants) ==
  IF variants = {} THEN None
  ELSE CHOOSE r \in variants : \A q \in variants : Height(q) <= Height(r)

\* Variant of the exact-match selection that falls back to the best variant
\* when the requested resolution is not offered.
ExactMatch_nearest(variants, r) ==
  IF r \in variants THEN r ELSE Highest(variants)

\* filtered_streams.filter(res=resolution).first()
ExactMatch(variants, r) == IF r \in variants THEN r ELSE None

\* YouTube(url, on_progress_callback=...), then the selection of the stream.
\* pytube may fail to resolve the URL; the resource exposes some progressive
\* variants (and maybe an audio stream) of MaxChunks units each, whose
\* filesize / filesize_approx attributes may be unknown (0).
pytube_select ==
  /\ pc = "py_init"
  /\ ctl = "none"
  /\ \/ AdapterRaises("PytubeError", MsgPytubeLib)
          /\ UNCHANGED <<stream, yt_streams>>
     \/ \E variants \in VariantSets, has_audio \in BOOLEAN,
           fs \in {0, MaxChunks}, fa \in {0, MaxChunks} :
          LET sel == IF audio_only
                       THEN IF has_audio THEN "audio" ELSE None
                       ELSE IF Truthy(resolution)
                              THEN ExactMatch(variants, resolution)
                              ELSE Highest(variants)
          IN IF sel = None
               THEN /\ AdapterRaises("ValueError",
                         IF audio_only THEN MsgNoAudio
                         ELSE IF Truthy(resolution)
                                THEN MsgResolution(resolution)
                                ELSE MsgNoProgressive)
                    /\ yt_streams' = variants
                    /\ UNCHANGED stream
               ELSE /\ stream' = [filesize |-> fs, filesize_approx |-> fa,
                                  res |-> sel]
                    /\ yt_streams' = variants
                    /\ pc' = "py_start"
                    /\ ctl' = Checkpoint
                    /\ UNCHANGED <<exc, tmpvars>>
  /\ UNCHANGED <<args, aux, ctrl, phase, attempts, ret, outcome, events,
                 bytes_remaining, ydvars>>

\* destination = stream.download(...): the transfer starts.
pytube_download ==
  /\ pc = "py_start"
  /\ ctl = "none"
  /\ bytes_remaining' = MaxChunks
  /\ pc' = "py_stream"
  /\ UNCHANGED <<kept, ctrl, ctl, phase, attempts, exc, ret, outcome, events,
                 stream, yt_streams, ydvars>>

\* Inside stream.download: the next chunk is written and on_progress is
\* called with the bytes remaining. With a progress callback the handler is
\* _handler, which starts with the control checks; without one it is
\* _progress_callback, which has none.
pytube_chunk ==
  /\ pc = "py_stream"
  /\ bytes_remaining > 0
  /\ bytes_remaining' = bytes_remaining - 1
  /\ pc' = "py_handler"
  /\ ctl' = IF progress_callback THEN Checkpoint ELSE "none"
  /\ UNCHANGED <<kept, ctrl, phase, attempts, exc, ret, outcome, events,
                 stream, yt_streams, ydvars>>

\* Inside stream.download: the transfer breaks (network error).
pytube_stream_error ==
  /\ pc = "py_stream"
  /\ bytes_remaining > 0
  /\ AdapterRaises("PytubeError", MsgPytubeLib)
  /\ UNCHANGED <<args, aux, ctrl, phase, attempts, ret, outcome, events, pyvars,
                 ydvars>>

\* _make_pytube_progress_handler._handler after its control checks.
_handler ==
  /\ pc = "py_handler"
  /\ ctl = "none"
  /\ progress_callback
  /\ LET total_size == IF stream.filesize # 0 THEN stream.filesize
                       ELSE stream.filesize_approx
         downloaded == IF total_size # 0 THEN total_size - bytes_remaining
                       ELSE 0
     IN events' = Emit(Percent(downloaded, total_size), "")
  /\ pc' = "py_stream"
  /\ UNCHANGED <<kept, ctrl, ctl, phase, attempts, exc, ret, outcome, pyvars,
                 ydvars>>

\* _progress_callback (the handler when no progress callback was passed):
\* divides by stream.filesize and writes to stdout.
_progress_callback ==
  /\ pc = "py_handler"
  /\ ctl = "none"
  /\ ~progress_callback
  /\ IF stream.filesize = 0
       THEN AdapterRaises("ZeroDivisionError", MsgZeroDivision)
       ELSE pc' = "py_stream" /\ UNCHANGED <<ctl, exc, tmpvars>>
  /\ UNCHANGED <<args, aux, ctrl, phase, attempts, ret, outcome, events, pyvars,
                 ydvars>>

\* stream.download returned: progress_callback(100.0, ""), return the path.
pytube_complete ==
  /\ pc = "py_stream"
  /\ bytes_remaining = 0
  /\ events' = IF progress_callback THEN Emit(100, "") ELSE events
  /\ ret' = "pytube_destination"
  /\ disk' = disk \cup {"pytube_destination"}
  /\ pc' = "dv_return"
  /\ UNCHANGED <<args, tmpvars, emitted, http, fn, inp, out, ctrl, ctl, phase,
                 attempts, exc, outcome, pyvars, ydvars>>

\* ----------------------------------------------------- _download_with_ytdlp
\* Statuses yt-dlp may hand to a progress hook. An absent key reads as 0 / "".
St(s, d, t, e, f) ==
  [status |-> s, downloaded_bytes |-> d, total_bytes |-> t,
   total_bytes_estimate |-> e, filename |-> f]

HookStatuses ==
  { St("downloading", 1, 2, 0, ""), St("downloading", 2, 2, 0, ""),
    St("downloading", 1, 0, 4, ""), St("downloading", 1, 0, 0, ""),
    St("postprocessing", 0, 0, 0, ""),
    St("finished", 0, 0, 0, "out.mp4"), St("finished", 0, 0, 0, "out.mp3"),
    St("finished", 0, 0, 0, ""),
    St("error", 0, 0, 0, "") }

\* output_dir.mkdir, the options, then the `with TemporaryDirectory` block
\* is entered and the cookies are put into the options: a cookie jar is
\* written to cookies.txt inside the staging directory.
ytdlp_setup ==
  /\ pc = "yd_setup"
  /\ temp_dir' = TRUE
  /\ cookiefile' = UsesCookieFile(cookies)
  /\ pc' = "yd_open"
  /\ UNCHANGED <<args, aux, ctrl, ctl, phase, attempts, exc, ret, outcome,
                 events, pyvars, ydvars>>

\* `with YoutubeDL(ydl_opts) as ydl`, which may fail, then the control check
\* that precedes ydl.download.
ytdlp_open ==
  /\ pc = "yd_open"
  /\ \/ AdapterRaises("YtdlpError", MsgYtdlpLib)
     \/ pc' = "yd_lib" /\ ctl' = Checkpoint /\ UNCHANGED <<exc, tmpvars>>
  /\ UNCHANGED <<args, aux, ctrl, phase, attempts, ret, outcome, events,
                 pyvars, ydvars>>

\* Variant in which _hook handles the status without its control checks.
ytdlp_event_unchecked ==
  /\ pc = "yd_lib"
  /\ ctl = "none"
  /\ hook_calls < MaxHookCalls
  /\ \E s \in HookStatuses : status' = s
  /\ hook_calls' = hook_calls + 1
  /\ pc' = "yd_hook"
  /\ ctl' = "none"
  /\ UNCHANGED <<kept, ctrl, phase, attempts, exc, ret, outcome, events,
                 pyvars, download_info>>

\* Inside ydl.download: yt-dlp calls _hook with a status; the hook starts
\* with the control checks.
ytdlp_event ==
  /\ pc = "yd_lib"
  /\ ctl = "none"
  /\ hook_calls < MaxHookCalls
  /\ \E s \in HookStatuses : status' = s
  /\ hook_calls' = hook_calls + 1
  /\ pc' = "yd_hook"
  /\ ctl' = Checkpoint
  /\ UNCHANGED <<kept, ctrl, phase, attempts, exc, ret, outcome, events,
                 pyvars, download_info>>

\* Variant of the finished branch that keeps the first path reported.
RecordedPath_first(s, info) ==
  IF s.filename # "" /\ info = None THEN s.filename ELSE info

\* download_info["filepath"] after a finished status: the status's filename
\* when it has one.
RecordedPath(s, info) == IF s.filename # "" THEN s.filename ELSE info

\* _hook after its control checks.
_hook ==
  /\ pc = "yd_hook"
  /\ ctl = "none"
  /\ LET status_type == status.status IN
     IF status_type = "downloading" /\ progress_callback
       THEN LET downloaded == status.downloaded_bytes
                total == IF status.total_bytes # 0 THEN status.total_bytes
                         ELSE status.total_bytes_estimate
            IN /\ events' = Emit(Percent(downloaded, total), "")
               /\ UNCHANGED download_info
     ELSE IF status_type = "postprocessing" /\ progress_callback
       THEN /\ events' = Emit(NoneP, "")
            /\ UNCHANGED download_info
     ELSE IF status_type = "finished"
       THEN /\ download_info' = RecordedPath(status, download_info)
            /\ events' = IF progress_callback THEN Emit(100, "") ELSE events
     ELSE UNCHANGED <<events, download_info>>
  /\ status' = NoStatus
  /\ pc' = "yd_lib"
  /\ UNCHANGED <<kept, ctrl, ctl, phase, attempts, exc, ret, outcome, pyvars,
                 hook_calls>>

\* ydl.download raises (extraction, network or post-processing error).
ytdlp_error ==
  /\ pc = "yd_lib"
  /\ ctl = "none"
  /\ AdapterRaises("YtdlpError", MsgYtdlpLib)
  /\ UNCHANGED <<args, aux, ctrl, phase, attempts, ret, outcome, events, pyvars,
                 ydvars>>

\* The paths at which yt-dlp may have left a file in the output directory.
YtdlpFiles == {"out.mp4", "out.mp3"}
\* The path string of a character sequence.
PathOf(chars) == CHOOSE p \in YtdlpFiles : Chars(p) = chars

\* Lines 327-337 for the recorded path and the files present: the possible
\* pairs of returned path and files afterwards. In audio-only mode
\* final_extension is always "mp3".
Rename(final_path, files) ==
  IF audio_only /\ Suffix(Chars(final_path)) # <<".">> \o Mp3
    THEN LET target ==
               PathOf(with_suffix(Chars(final_path), <<".">> \o Mp3))
         IN IF final_path \in files
              THEN \* renamed; or unlink / rename raised OSError
                   {[path |-> target,
                     disk |-> (files \ {final_path}) \cup {target}],
                    [path |-> final_path, disk |-> files],
                    [path |-> final_path, disk |-> files \ {target}]}
              ELSE {[path |-> final_path, disk |-> files]}
    ELSE {[path |-> final_path, disk |-> files]}

\* ydl.download returns and both `with` blocks are left; then
\* final_path = download_info.get("filepath"), the rename to .mp3 in
\* audio-only mode, and the return. Which files yt-dlp has left in the
\* output directory is its own business.
ytdlp_finish ==
  /\ pc = "yd_lib"
  /\ ctl = "none"
  /\ IF download_info = None
       THEN /\ AdapterRaises("RuntimeError", MsgNoDestination)
            /\ UNCHANGED <<ret, disk>>
       ELSE \E files \in SUBSET YtdlpFiles :
              \E r \in Rename(download_info, files) :
                /\ ret' = r.path
                /\ disk' = r.disk
                /\ pc' = "dv_return"
                /\ ExitTempDir
                /\ UNCHANGED <<ctl, exc>>
  /\ UNCHANGED <<args, emitted, http, fn, inp, out, ctrl, phase, attempts,
                 outcome, events, pyvars, ydvars>>

\* ------------------------------------------------------------ specification
Controller == pause \/ resume \/ cancel

Worker ==
  \/ download_video
  \/ except_DownloadCancelled \/ except_prefer \/ except_primary
  \/ except_fallback \/ return_path \/ run
  \/ raise_if_cancelled \/ wait_if_paused_test \/ wait_if_paused_check
  \/ wait_if_paused_sleep
  \/ pytube_select \/ pytube_download \/ pytube_chunk \/ pytube_stream_error
  \/ _handler \/ _progress_callback \/ pytube_complete
  \/ ytdlp_setup \/ ytdlp_open \/ ytdlp_event \/ _hook \/ ytdlp_error
  \/ ytdlp_finish

Next == Controller \/ Worker

Spec == Init /\ [][Next]_vars

\* The worker thread is scheduled as long as it can run.
FairSpec == Spec /\ WF_vars(Worker)

\* ------------------------------------------------ the /download endpoint
\* abort(code, description)
Abort(code, description) ==
  http' = [http EXCEPT !.pc = "responded", !.code = code,
                       !.description = description]

\* Variant that aborts without removing the per-request directory.
CleanupAndAbort_keeps(code, description) == Abort(code, description)

\* temp_dir.cleanup(); abort(code, description)
CleanupAndAbort(code, description) ==
  http' = [http EXCEPT !.pc = "responded", !.temp_dir = FALSE,
                       !.code = code, !.description = description]

\* download_endpoint up to the call: a body without url is refused, else the
\* per-request directory is made and download_video is called with
\* progress_callback = None and control = None.
endpoint_request ==
  /\ http.pc = "request"
  /\ IF ~http.url
       THEN Abort(400, MsgMissingUrl) /\ UNCHANGED pc
       ELSE /\ http' = [http EXCEPT !.pc = "calling", !.temp_dir = TRUE]
            /\ pc' = "dv_start"
  /\ UNCHANGED <<args, tmpvars, emitted, fn, inp, out, disk, ctrl, ctl,
                 phase, attempts, exc, ret, outcome, events, pyvars, ydvars>>

\* download_video has ended: the except clauses, the check that the
\* returned path exists (the file may be missing), the start of send_file.
endpoint_result ==
  /\ http.pc = "calling"
  /\ pc = "done"
  /\ IF outcome.kind = "raised"
       THEN IF outcome.type = "DownloadError"
              THEN CleanupAndAbort(400, outcome.msg)
              ELSE CleanupAndAbort(500, MsgFailed)
       ELSE IF ret \in disk
              THEN http' = [http EXCEPT !.pc = "sending", !.code = 200]
              ELSE CleanupAndAbort(500, MsgNotFound)
  /\ UNCHANGED <<args, tmpvars, emitted, fn, inp, out, disk, ctrl, pc, ctl,
                 phase, attempts, exc, ret, outcome, events, pyvars, ydvars>>

\* _cleanup, registered with after_this_request: the file and the directory
\* are removed once the response has been produced.
_cleanup ==
  /\ http.pc = "sending"
  /\ http' = [http EXCEPT !.pc = "responded", !.temp_dir = FALSE]
  /\ disk' = {}
  /\ UNCHANGED <<args, tmpvars, emitted, fn, inp, out, ctrl, pc, ctl, phase,
                 attempts, exc, ret, outcome, events, pyvars, ydvars>>

HttpInit ==
  /\ audio_only \in BOOLEAN
  /\ cookies \in CookieValues
  /\ resolution \in ResolutionValues
  /\ progress_callback = FALSE
  /\ control = FALSE
  /\ Entry
  /\ pc = "idle"
  /\ http \in {[NoHttp EXCEPT !.pc = "request", !.url = u] : u \in BOOLEAN}
  /\ fn = "none"
  /\ inp = NoInput
  /\ out = Absent

\* The steps of download_video that can be taken without a control object
\* and without a progress callback.
HttpWorker ==
  \/ download_video
  \/ except_prefer \/ except_primary \/ except_fallback \/ return_path
  \/ pytube_select \/ pytube_download \/ pytube_chunk \/ pytube_stream_error
  \/ _progress_callback \/ pytube_complete
  \/ ytdlp_setup \/ ytdlp_open \/ ytdlp_event \/ _hook \/ ytdlp_error
  \/ ytdlp_finish

HttpNext == endpoint_request \/ endpoint_result \/ _cleanup \/ HttpWorker

HttpSpec == HttpInit /\ [][HttpNext]_vars

\* ------------------------------------- the helper functions on their own
\* Alphabets of the texts the helper functions are applied to.
CookieChars == {"a", " ", "\t", "\n"}
NameChars == {"a", ".", "k"}
ResolutionChars == {"2", "0", "p", " "}

CookieTexts == SeqsUpTo(CookieChars, MaxCookieLen)
Filenames == {Absent} \cup {Some(n) : n \in SeqsUpTo(NameChars, MaxNameLen)}
Resolutions ==
  {Absent} \cup {Some(r) : r \in SeqsUpTo(ResolutionChars, MaxResLen)}

\* The calls examined: the function and its arguments.
FnCalls ==
  {[f |-> "cookie_options", cookies |-> t] : t \in CookieTexts}
    \cup {[f |-> "ydl_opts", filename |-> n, audio_only |-> a,
            resolution |-> r] :
            n \in Filenames, a \in BOOLEAN, r \in Resolutions}
    \cup {[f |-> "pytube_filename", filename |-> n] : n \in Filenames}

FnInit ==
  /\ audio_only = FALSE
  /\ cookies = None
  /\ resolution = None
  /\ progress_callback = FALSE
  /\ control = FALSE
  /\ Entry
  /\ pc = "idle"
  /\ http = NoHttp
  /\ fn = "none"
  /\ inp \in FnCalls
  /\ out = Absent

Applied(result) ==
  /\ fn = "none"
  /\ fn' = inp.f
  /\ out' = Some(result)
  /\ UNCHANGED <<args, ctrl, pc, ctl, phase, attempts, exc, ret, outcome,
                 events, pyvars, ydvars, tmpvars, emitted, http, inp, disk>>

apply_cookie_options ==
  /\ inp.f = "cookie_options"
  /\ Applied(cookie_options(inp.cookies))

apply_ydl_opts ==
  /\ inp.f = "ydl_opts"
  /\ Applied(ydl_opts(inp.filename, inp.audio_only, inp.resolution))

apply_pytube_filename ==
  /\ inp.f = "pytube_filename"
  /\ Applied(pytube_filename(inp.filename))

FnNext == apply_cookie_options \/ apply_ydl_opts \/ apply_pytube_filename

FnSpec == FnInit /\ [][FnNext]_vars

TypeOK ==
  /\ pc \in {"idle", "dv_start", "dv_except", "dv_return", "done", "py_init",
             "py_start", "py_stream", "py_handler", "yd_setup", "yd_open",
             "yd_lib", "yd_hook"}
  /\ ctl \in {"none", "ric", "wip_test", "wip_retest", "wip_ric",
              "wip_sleep"}
  /\ phase \in {"none", "prefer", "primary", "fallback"}
  /\ outcome.kind \in {"running", "returned", "raised"}
  /\ bytes_remaining \in 0..MaxChunks
  /\ hook_calls \in 0..MaxHookCalls
  /\ yt_streams \in VariantSets
  /\ temp_dir \in BOOLEAN
  /\ cookiefile \in BOOLEAN
  /\ disk \subseteq YtdlpFiles \cup {"pytube_destination"}

\* ---------------------------------------------------------------- claims
Done == pc = "done"
PrefersFallback == audio_only \/ cookies \notin {None, ""}
FallbackMessages == {MsgYtdlpLib, MsgNoDestination}
LastEvent == events[Len(events)]

\* C1: with audio_only or non-empty cookies the first adapter attempted is
\* yt-dlp and it stays the only one; when it fails with anything but a
\* cancellation, download_video fails with DownloadError carrying that
\* adapter's message, and pytube is never invoked.
C1_FallbackFirstAndOnly ==
  PrefersFallback =>
    /\ attempts \in {<<>>, <<"ytdlp">>}
    /\ (Done /\ exc.type \notin {"none", "DownloadCancelled"}) =>
         /\ exc.from = "ytdlp"
         /\ outcome = [kind |-> "raised", type |-> "DownloadError",
                       msg |-> exc.msg]
         /\ outcome.msg \in FallbackMessages

C1_Witness ==
  /\ ~audio_only /\ cookies = "SID=abc"
  /\ Done /\ outcome.type = "DownloadError" /\ attempts = <<"ytdlp">>

\* C2: in video mode without cookies pytube is attempted first; when it
\* fails with a non-cancellation error yt-dlp is attempted next, once; when
\* that fails too, DownloadError carries yt-dlp's message.
C2_PrimaryThenFallback ==
  (~audio_only /\ cookies \in {None, ""}) =>
    /\ attempts \in {<<>>, <<"pytube">>, <<"pytube", "ytdlp">>}
    /\ (Done /\ attempts = <<"pytube">>) =>
         exc.type \in {"none", "DownloadCancelled"}
    /\ (Done /\ exc.type \notin {"none", "DownloadCancelled"}) =>
         /\ attempts = <<"pytube", "ytdlp">>
         /\ exc.from = "ytdlp"
         /\ outcome = [kind |-> "raised", type |-> "DownloadError",
                       msg |-> exc.msg]
         /\ outcome.msg \in FallbackMessages

C2_Witness ==
  /\ ~audio_only /\ cookies = ""
  /\ Done /\ outcome.type = "DownloadError"
  /\ attempts = <<"pytube", "ytdlp">>

\* C3: when an adapter attempt ends with DownloadCancelled, the next step of
\* download_video is to terminate with DownloadCancelled: no adapter is
\* started and the cancellation is not turned into DownloadError.
C3_CancelledPropagates ==
  [][(pc = "dv_except" /\ exc.type = "DownloadCancelled" /\ pc' # pc) =>
       /\ pc' = "done"
       /\ attempts' = attempts
       /\ outcome' = [kind |-> "raised", type |-> "DownloadCancelled",
                      msg |-> MsgEmpty]]_vars

C3_Witness ==
  /\ Done /\ outcome.type = "DownloadCancelled"
  /\ attempts = <<"pytube", "ytdlp">>

\* C4: a terminated download_video has returned a path, raised
\* DownloadCancelled or raised DownloadError; the adapters' own errors
\* (ValueError, RuntimeError, ZeroDivisionError, library errors) never reach
\* the caller.
C4_ThreeOutcomes ==
  /\ Done <=> outcome.kind # "running"
  /\ Done =>
       \/ outcome.kind = "returned" /\ ret # None
       \/ outcome.kind = "raised"
            /\ outcome.type \in {"DownloadCancelled", "DownloadError"}

C4_Witness ==
  /\ Done /\ outcome.type = "DownloadError"
  /\ exc.type = "RuntimeError" /\ phase = "fallback"

\* C5: once cancel() has been called the cancel flag stays set, and every
\* raise_if_cancelled() executed from then on raises DownloadCancelled,
\* whatever pause(), resume() and cancel() calls come before or after.
C5_CancelIrreversible ==
  [][/\ cancel_event => cancel_event'
     /\ (cancel_event /\ ctl \in {"ric", "wip_ric"} /\ ctl' # ctl) =>
          (exc'.type = "DownloadCancelled" /\ pc' = "dv_except")]_vars

C5_Witness ==
  /\ cancel_event /\ ~resume_event
  /\ exc.type = "DownloadCancelled" /\ pc = "dv_except"

\* C6: after cancel() a worker inside wait_if_paused() never starts another
\* sleep: it evaluates the loop condition at most once more and then leaves
\* the call, by returning or by raising, also when pause() is called again
\* after the cancel and resume() is never called.
C6_NoSleepAfterCancel ==
  [][cancel_event =>
       /\ ~(ctl # "wip_sleep" /\ ctl' = "wip_sleep")
       /\ (ctl \in {"wip_test", "wip_retest"} /\ ctl' # ctl) =>
            ctl' \in {"none", "wip_ric"}
       /\ (ctl = "wip_ric" /\ ctl' # ctl) => ~InWait']_vars

C6_Witness == cancel_event /\ ~resume_event /\ ctl = "wip_ric"

\* C6, as progress: with the worker thread scheduled (FairSpec), a worker
\* inside wait_if_paused() after cancel() leaves the call.
C6_LeavesWait == (cancel_event /\ InWait) ~> ~InWait

\* C7: when cancel() is called while the worker is blocked in the loop of
\* wait_if_paused() (it has passed the loop condition at least once), that
\* call ends by raising DownloadCancelled, never by returning normally.
C7_WaiterObservesCancel ==
  [][(cancel_event /\ ctl \in {"wip_ric", "wip_sleep", "wip_retest"}
        /\ ~InWait') =>
       (exc'.type = "DownloadCancelled" /\ pc' = "dv_except")]_vars

\* C8: when download_video was given a progress callback and returned a
\* path, the last progress event delivered is (100, "").
C8_LastEventIs100 ==
  (outcome.kind = "returned" /\ progress_callback) =>
    /\ events # <<>>
    /\ LastEvent.percent = 100
    /\ LastEvent.message = ""

\* Events delivered by the attempt that produced the file.
FinalAttemptEvents == SelectSeq(events, LAMBDA e : e.att = Len(attempts))
Determinate(es) == \A i \in 1..Len(es) : es[i].percent # NoneP

\* C9: a successful download with determinate progress delivers (100, "")
\* exactly once in the successful attempt, as its last event.
C9_ExactlyOneFinal100 ==
  (outcome.kind = "returned" /\ progress_callback
     /\ Determinate(FinalAttemptEvents)) =>
    LET es == FinalAttemptEvents IN
      /\ Len(es) >= 1
      /\ es[Len(es)].percent = 100
      /\ Cardinality({i \in 1..Len(es) : es[i].percent = 100}) = 1

\* C10: within one adapter attempt the numeric percents delivered to the
\* progress callback never decrease.
C10_MonotonePercent ==
  \A i, j \in 1..Len(events) :
    (i < j /\ events[i].att = events[j].att
       /\ events[i].percent # NoneP /\ events[j].percent # NoneP) =>
      events[i].percent <= events[j].percent

\* C11: the staging directory of a yt-dlp invocation, and the cookie jar
\* written inside it, exist only while that invocation is inside its `with`
\* block: they are gone once the adapter has returned, has failed, or has been
\* cancelled, and a jar never exists without its directory.
InsideTempDir == pc \in {"yd_open", "yd_lib", "yd_hook"}

C11_TempRemoved ==
  /\ cookiefile => temp_dir
  /\ ~InsideTempDir => (~temp_dir /\ ~cookiefile)

\* A yt-dlp invocation that wrote a cookie jar was cancelled in its hook, and
\* the jar and the directory are gone.
C11_Witness ==
  /\ pc = "dv_except"
  /\ exc.type = "DownloadCancelled"
  /\ exc.from = "ytdlp"
  /\ hook_calls > 0
  /\ UsesCookieFile(cookies)
  /\ ~temp_dir
  /\ ~cookiefile

\* v is t without its leading and trailing whitespace.
IsStripped(v, t) ==
  /\ v # <<>> => (v[1] \notin Whitespace /\ v[Len(v)] \notin Whitespace)
  /\ \E i \in 0..Len(t) :
       /\ i + Len(v) <= Len(t)
       /\ v = SubSeq(t, i + 1, i + Len(v))
       /\ \A k \in 1..Len(t) :
            (k <= i \/ k > i + Len(v)) => t[k] \in Whitespace

\* C12 as stated: a non-empty cookies text with a newline or a tab anywhere,
\* also only at its start or end, goes to the cookie file, any other text
\* goes to the Cookie header.
C12_RawTextDecides ==
  (fn = "cookie_options" /\ inp.cookies # <<>>) =>
    LET jar == Contains(inp.cookies, "\n") \/ Contains(inp.cookies, "\t") IN
    /\ jar => (out[1].cookiefile # Absent /\ out[1].Cookie = Absent)
    /\ ~jar => (out[1].cookiefile = Absent /\ out[1].Cookie # Absent)

\* C12 (amended): for a non-empty cookies text exactly one of the two
\* mechanisms is used, the text handed to it is the cookies text without its
\* leading and trailing whitespace, and it is the cookie file exactly when
\* that stripped text contains a newline or a tab.
C12_StrippedTextDecides ==
  (fn = "cookie_options" /\ inp.cookies # <<>>) =>
    LET o == out[1]
        v == IF o.cookiefile # Absent THEN o.cookiefile[1] ELSE o.Cookie[1]
    IN /\ (o.cookiefile = Absent) # (o.Cookie = Absent)
       /\ IsStripped(v, inp.cookies)
       /\ (o.cookiefile # Absent) <=>
            (Contains(v, "\n") \/ Contains(v, "\t"))

\* A header value followed by a newline went to the Cookie header, stripped.
C12_Witness ==
  /\ fn = "cookie_options"
  /\ inp.cookies = <<"a", "\n">>
  /\ out[1].Cookie = Some(<<"a">>)
  /\ out[1].cookiefile = Absent

\* A custom filename that is used, and whether it carries an extension.
CustomName(call) == call.filename # Absent /\ call.filename[1] # <<>>
HasExtension(name) == Suffix(name) # <<>>
EndsWith(t, e) ==
  Len(t) >= Len(e) /\ SubSeq(t, Len(t) - Len(e) + 1, Len(t)) = e

\* C13: for a custom filename that carries an extension, the output template
\* of the yt-dlp adapter is, in audio-only mode, the name up to its last dot
\* followed by ".mp3", and in video mode the filename as given.
C13_TemplateOfNameWithExtension ==
  (fn = "ydl_opts" /\ CustomName(inp) /\ HasExtension(inp.filename[1])) =>
    LET name == inp.filename[1]
        stem == SubSeq(name, 1, LastDot(name) - 1)
    IN IF inp.audio_only
         THEN out[1].outtmpl = stem \o <<".", "m", "p", "3">>
         ELSE out[1].outtmpl = name

\* "a.k" requested in audio-only mode resolved to "a.mp3".
C13_Witness ==
  /\ fn = "ydl_opts"
  /\ inp.audio_only
  /\ inp.filename = Some(<<"a", ".", "k">>)
  /\ out[1].outtmpl = <<"a", ".", "m", "p", "3">>

\* C14: a custom filename without an extension gets the natural extension
\* of the download appended, in the pytube adapter (the name of the file it
\* writes) as well as in the yt-dlp adapter (its output template).
C14_NameGetsExtension ==
  /\ (fn = "pytube_filename" /\ CustomName(inp)
        /\ ~HasExtension(inp.filename[1])) =>
       EndsWith(out[1], <<".">> \o Mp4)
  /\ (fn = "ydl_opts" /\ CustomName(inp)
        /\ ~HasExtension(inp.filename[1])) =>
       \/ EndsWith(out[1].outtmpl, <<".", ExtField>>)
       \/ EndsWith(out[1].outtmpl, <<".">> \o Mp3)

\* C15: in the pytube adapter, video mode: with a resolution constraint the
\* selected variant has exactly that resolution and is one the resource
\* offers; when none has it the adapter raises ValueError naming the
\* resolution, with no stream selected and no transfer started. Without a
\* constraint the selected variant is an offered one of greatest height, and
\* the adapter raises ValueError when nothing is offered.
PytubeSelected == pc \in {"py_start", "py_stream", "py_handler"}

C15_PytubeSelection ==
  /\ (PytubeSelected /\ ~audio_only) =>
       IF Truthy(resolution)
         THEN stream.res = resolution /\ resolution \in yt_streams
         ELSE /\ stream.res \in yt_streams
              /\ \A q \in yt_streams : Height(q) <= Height(stream.res)
  /\ (pc = "dv_except" /\ exc.from = "pytube" /\ exc.type = "ValueError"
        /\ ~audio_only) =>
       /\ stream = NoStream
       /\ bytes_remaining = 0
       /\ IF Truthy(resolution)
            THEN /\ resolution \notin yt_streams
                 /\ exc.msg = MsgResolution(resolution)
            ELSE /\ yt_streams = {}
                 /\ exc.msg = MsgNoProgressive

\* 4320p was requested of a resource that offers 360p and 720p.
C15_Witness ==
  /\ pc = "dv_except"
  /\ exc.from = "pytube"
  /\ exc.msg = MsgResolution("4320p")
  /\ yt_streams = {"360p", "720p"}
  /\ stream = NoStream

\* C16: in audio-only mode the options the yt-dlp adapter derives (format
\* selector, height limit, output template, merge format, postprocessors)
\* are those of the same call without a resolution, whatever the resolution
\* argument is: absent, well-formed or malformed.
C16_ResolutionIgnoredInAudio ==
  (fn = "ydl_opts" /\ inp.audio_only) =>
    out[1] = ydl_opts(inp.filename, TRUE, Absent)

\* An audio-only call with resolution "20p" got no height limit.
C16_Witness ==
  /\ fn = "ydl_opts"
  /\ inp.audio_only
  /\ inp.resolution = Some(<<"2", "0", "p">>)
  /\ out[1].height_filter = Absent
  /\ out[1].format = "bestaudio/best"

\* C17: the endpoint answers a body without url with 400 without calling
\* download_video; a DownloadError with 400 and the error's message; any
\* other exception with 500 and a generic message; a returned path that does
\* not exist with 500; and whenever it answers with an error the per-request
\* directory is gone.
C17_EndpointErrors ==
  /\ http.pc = "calling" => (http.url /\ http.temp_dir)
  /\ http.pc = "responded" =>
       /\ http.code # 200 => ~http.temp_dir
       /\ ~http.url =>
            /\ http.code = 400
            /\ http.description = MsgMissingUrl
            /\ pc = "idle"
            /\ attempts = <<>>
       /\ http.url =>
            /\ pc = "done"
            /\ (outcome.kind = "raised" /\ outcome.type = "DownloadError") =>
                 (http.code = 400 /\ http.description = outcome.msg)
            /\ (outcome.kind = "raised" /\ outcome.type # "DownloadError") =>
                 (http.code = 500 /\ http.description = MsgFailed)
            /\ outcome.kind = "returned" =>
                 \/ http.code = 200
                 \/ http.code = 500 /\ http.description = MsgNotFound

\* Both adapters failed, and the endpoint answered 400 with the message of
\* the yt-dlp error, the directory removed.
C17_Witness ==
  /\ http.pc = "responded"
  /\ http.code = 400
  /\ http.description = MsgYtdlpLib
  /\ attempts = <<"pytube", "ytdlp">>
  /\ ~http.temp_dir

\* C18: a run of DownloadWorker emits at most one terminal signal, and only
\* when download_video has ended; the signal is cancelled exactly when the
\* download ended with DownloadCancelled, failed with the error's message
\* for any other exception, succeeded with the destination otherwise; and
\* once it is emitted no progress event and no further signal follows.
C18_Signals ==
  /\ Len(emitted) <= 1
  /\ emitted # <<>> =>
       /\ pc = "done"
       /\ (emitted[1].signal = "cancelled") <=>
            (outcome.kind = "raised" /\ outcome.type = "DownloadCancelled")
       /\ (emitted[1].signal = "failed") <=>
            (outcome.kind = "raised" /\ outcome.type # "DownloadCancelled")
       /\ emitted[1].signal = "failed" => emitted[1].arg = outcome.msg
       /\ (emitted[1].signal = "succeeded") <=> (outcome.kind = "returned")

C18_OneTerminalSignal ==
  [](C18_Signals)
    /\ [][emitted # <<>> => (emitted' = emitted /\ events' = events)]_vars

\* A download cancelled after progress was reported emitted cancelled.
C18_Witness ==
  /\ emitted # <<>>
  /\ emitted[1].signal = "cancelled"
  /\ events # <<>>

\* C19: whenever the pytube adapter was given a control object, every chunk
\* of the transfer is followed by the control checks (raise_if_cancelled,
\* then wait_if_paused), whether or not a progress callback was given.
C19_ControlCheckedEveryChunk ==
  [][(control /\ pc = "py_stream" /\ pc' = "py_handler") => ctl' = "ric"]_vars

\* C20: in the pytube adapter the control checks that precede the transfer
\* end normally, leaving the adapter free to start stream.download, only if
\* cancel() has not been called by then.
C20_NoTransferAfterCancel ==
  [][(pc = "py_start" /\ ctl # "none" /\ pc' = "py_start" /\ ctl' = "none")
       => ~cancel_event]_vars

\* C21: with a control object, every call of _hook, whatever its status,
\* starts with raise_if_cancelled() followed by wait_if_paused(); nothing is
\* delivered to the progress callback and no path is recorded before both
\* have ended; and a call whose raise_if_cancelled() finds cancel() already
\* called raises DownloadCancelled with no event delivered and no path
\* recorded.
C21_HookChecksFirst ==
  [][/\ (control /\ pc = "yd_lib" /\ pc' = "yd_hook") => ctl' = "ric"
     /\ (pc = "yd_hook" /\ ctl = "ric" /\ ctl' # ctl) =>
          IF cancel_event
            THEN /\ pc' = "dv_except"
                 /\ exc'.type = "DownloadCancelled"
            ELSE pc' = "yd_hook" /\ ctl' = "wip_test"
     /\ (pc = "yd_hook" /\ ctl # "none") =>
          (events' = events /\ download_info' = download_info)]_vars

\* A hook call for a finished status that names a file was cancelled before
\* any path was recorded or any event delivered.
C21_Witness ==
  /\ pc = "dv_except"
  /\ exc.type = "DownloadCancelled"
  /\ exc.from = "ytdlp"
  /\ status.status = "finished"
  /\ status.filename # ""
  /\ download_info = None
  /\ events = <<>>

\* The adapter of the running, or last, attempt.
LastAttempt == IF attempts = <<>> THEN "none" ELSE attempts[Len(attempts)]

\* C22: the path recorded by the yt-dlp adapter is, after each hook call,
\* the filename of that call's status when the status is finished and has a
\* filename, and unchanged otherwise; the adapter returns only with a
\* recorded path, and the path it returns is the recorded one or its .mp3
\* sibling; when ydl.download ends with nothing recorded the adapter raises
\* and download_video does not return a path.
C22_PathOfLastFinished ==
  [](/\ (pc \in {"dv_return", "done"} /\ LastAttempt = "ytdlp"
           /\ download_info = None) => outcome.kind # "returned"
     /\ (pc = "dv_return" /\ LastAttempt = "ytdlp") => download_info # None)
    /\ [][/\ (pc = "yd_hook" /\ pc' = "yd_lib") =>
               download_info' =
                 IF status.status = "finished" /\ status.filename # ""
                   THEN status.filename
                   ELSE download_info
          /\ (pc = "yd_lib" /\ pc' = "dv_return") =>
               /\ download_info # None
               /\ ret' \in {download_info, "out.mp3"}
          /\ (pc = "yd_lib" /\ download_info = None
                /\ pc' \notin {"yd_lib", "yd_hook"}) =>
               (pc' = "dv_except" /\ exc'.type # "none")]_vars

\* ydl.download ended after a finished status without a filename: (100, "")
\* was delivered, and download_video raised DownloadError.
C22_Witness ==
  /\ outcome.kind = "raised"
  /\ outcome.type = "DownloadError"
  /\ outcome.msg = MsgNoDestination
  /\ events # <<>>
  /\ LastEvent.percent = 100

\* C23: when the yt-dlp adapter returns in audio-only mode with a recorded
\* path that does not end in .mp3, either the file was renamed (the .mp3
\* path is returned, a file is there and none is left at the recorded path)
\* or the rename failed (the recorded path is returned and its file is
\* still there); in video mode the recorded path is returned.
C23_RenamedToMp3 ==
  (pc = "dv_return" /\ LastAttempt = "ytdlp") =>
    IF audio_only /\ download_info # "out.mp3"
      THEN \/ /\ ret = "out.mp3"
              /\ "out.mp3" \in disk
              /\ download_info \notin disk
           \/ /\ ret = download_info
              /\ download_info \in disk
      ELSE ret = download_info

\* C24: a path returned by download_video is the path of an existing file.
C24_ReturnedPathExists == outcome.kind = "returned" => ret \in disk

\* C25: the pytube adapter runs only in video mode without cookies, so it
\* never fails for want of an audio stream; download_video makes at most two
\* attempts and never calls the same adapter twice.
C25_PytubeVideoOnly ==
  /\ (\E i \in 1..Len(attempts) : attempts[i] = "pytube") =>
       (~audio_only /\ ~Truthy(cookies))
  /\ pc \in {"py_init", "py_start", "py_stream", "py_handler"} =>
       (~audio_only /\ ~Truthy(cookies) /\ stream.res # "audio")
  /\ exc.msg # MsgNoAudio
  /\ outcome.msg # MsgNoAudio
  /\ Len(attempts) <= 2
  /\ \A i, j \in 1..Len(attempts) : attempts[i] = attempts[j] => i = j

\* pytube selected a video variant, then failed, and yt-dlp took over.
C25_Witness ==
  /\ attempts = <<"pytube", "ytdlp">>
  /\ pc = "yd_lib"
  /\ ~audio_only
  /\ ~Truthy(cookies)
  /\ hook_calls > 0

====
